---- MODULE Spec2Model ----
(***************************************************************************)
(* The clock state machine of src/widgets/clock.rs: Clock<Countdown> and   *)
(* Clock<Timer>.  Durations are counted in deciseconds, the resolution of  *)
(* the clock.  Every method of Clock is an operator from a clock record to *)
(* the clock record the method leaves behind; the actions apply them.      *)
(***************************************************************************)
EXTENDS Integers, Sequences, FiniteSets, TLC

VARIABLES clock, variant, args, last_op, steps

vars == <<clock, variant, args, last_op, steps>>

-----------------------------------------------------------------------------
(* Bounds of the exploration.                                              *)

\* Number of value-changing calls (an effective tick, edit_up, edit_down)
\* explored in one behaviour of Spec.
MaxSteps == 4

-----------------------------------------------------------------------------
(* crate::duration: the units, in deciseconds.                             *)

ONE_DECI_SECOND == 1
ONE_SECOND == 10
SECS_PER_MINUTE == 60
MINS_PER_HOUR == 60
ONE_MINUTE == SECS_PER_MINUTE * ONE_SECOND
ONE_HOUR == MINS_PER_HOUR * ONE_MINUTE
ZERO == 0

\* Duration::from_secs
from_secs(s) == s * ONE_SECOND

Min(a, b) == IF a <= b THEN a ELSE b

\* DurationEx::saturating_sub: saturating at zero.
saturating_sub(a, b) == IF a >= b THEN a - b ELSE 0

\* max. 99:59:59
MAX_DURATION == saturating_sub(from_secs(100 * MINS_PER_HOUR * SECS_PER_MINUTE), ONE_SECOND)

\* DurationEx::saturating_add: never exceeds the maximum representable value.
saturating_add(a, b) == Min(a + b, MAX_DURATION)

\* DurationEx accessors.
hours(d) == d \div ONE_HOUR
minutes(d) == d \div ONE_MINUTE
seconds(d) == d \div ONE_SECOND
minutes_mod(d) == minutes(d) % MINS_PER_HOUR
seconds_mod(d) == seconds(d) % SECS_PER_MINUTE
decis(d) == d % ONE_SECOND
millis(d) == d * 100

-----------------------------------------------------------------------------
(* The enums.                                                              *)

\* enum Time
Time == {"Decis", "Seconds", "Minutes", "Hours"}

\* enum Format, in its derived order.
S == 0
Ss == 1
MSs == 2
MmSs == 3
HMmSs == 4
HhMmSs == 5
Format == S..HhMmSs

\* The fields a format has segments for; the decisecond segment is appended
\* when with_decis is set.
ShownFields(format, with_decis) ==
    {"Seconds"}
        \cup (IF format >= MSs THEN {"Minutes"} ELSE {})
        \cup (IF format >= HMmSs THEN {"Hours"} ELSE {})
        \cup (IF with_decis THEN {"Decis"} ELSE {})

\* enum Style
Style == {"Full", "Light", "Medium", "Dark", "Thick", "Cross", "Braille"}

\* Style::next going from Light to Thick, the variant declared after Dark.
Style_next_declared(style) ==
    IF style = "Full" THEN "Dark"
    ELSE IF style = "Dark" THEN "Medium"
    ELSE IF style = "Medium" THEN "Light"
    ELSE IF style = "Light" THEN "Thick"
    ELSE IF style = "Braille" THEN "Thick"
    ELSE IF style = "Thick" THEN "Cross"
    ELSE "Full"

\* Style::next
Style_next(style) ==
    IF style = "Full" THEN "Dark"
    ELSE IF style = "Dark" THEN "Medium"
    ELSE IF style = "Medium" THEN "Light"
    ELSE IF style = "Light" THEN "Braille"
    ELSE IF style = "Braille" THEN "Thick"
    ELSE IF style = "Thick" THEN "Cross"
    ELSE "Full"

\* Style::next applied k times.
RECURSIVE Style_next_times(_, _)
Style_next_times(style, k) ==
    IF k = 0 THEN style ELSE Style_next(Style_next_times(style, k - 1))

\* enum Mode.  Editable carries the previous mode.
Initial == [kind |-> "Initial"]
Tick == [kind |-> "Tick"]
Pause == [kind |-> "Pause"]
Done == [kind |-> "Done"]
Editable(time, prev) == [kind |-> "Editable", time |-> time, prev |-> prev]

IsEditable(mode) == mode.kind = "Editable"

Variant == {"Countdown", "Timer"}

-----------------------------------------------------------------------------
(* impl<T> Clock<T>                                                        *)

\* get_format with each threshold exclusive.
get_format_gt(c) ==
    IF hours(c.current_value) > 10 THEN HhMmSs
    ELSE IF hours(c.current_value) > 1 THEN HMmSs
    ELSE IF minutes(c.current_value) > 10 THEN MmSs
    ELSE IF minutes(c.current_value) > 1 THEN MSs
    ELSE IF seconds(c.current_value) > 10 THEN Ss
    ELSE S

get_format(c) ==
    IF hours(c.current_value) >= 10 THEN HhMmSs
    ELSE IF hours(c.current_value) >= 1 THEN HMmSs
    ELSE IF minutes(c.current_value) >= 10 THEN MmSs
    ELSE IF minutes(c.current_value) >= 1 THEN MSs
    ELSE IF seconds(c.current_value) >= 10 THEN Ss
    ELSE S

update_format(c) == [c EXCEPT !.format = get_format(c)]

\* toggle_pause with the test on Pause instead of Tick.
toggle_pause_on_pause(c) ==
    [c EXCEPT !.mode = IF c.mode = Pause THEN Tick ELSE Pause]

toggle_pause(c) ==
    [c EXCEPT !.mode = IF c.mode = Tick THEN Pause ELSE Tick]

\* toggle_edit entering edit mode from Editable as from any other mode.
toggle_edit_nests(c) ==
    [c EXCEPT !.mode =
        IF c.format <= Ss
        THEN Editable("Seconds", c.mode)
        ELSE Editable("Minutes", c.mode)]

\* toggle_edit that restores the previous mode whatever current_value is.
toggle_edit_restore(c) ==
    [c EXCEPT !.mode =
        IF IsEditable(c.mode) THEN c.mode.prev
        ELSE IF c.format <= Ss
             THEN Editable("Seconds", c.mode)
             ELSE Editable("Minutes", c.mode)]

\* toggle_edit without special case 1 (Done -> Initial).
toggle_edit_stays_done(c) ==
    [c EXCEPT !.mode =
        IF IsEditable(c.mode)
        THEN LET p == c.mode.prev IN
             IF p # Done /\ c.current_value = ZERO THEN Done ELSE p
        ELSE IF c.format <= Ss
             THEN Editable("Seconds", c.mode)
             ELSE Editable("Minutes", c.mode)]

\* toggle_edit entering with lt in place of le.
toggle_edit_lt(c) ==
    [c EXCEPT !.mode =
        IF IsEditable(c.mode)
        THEN LET p == c.mode.prev IN
             IF p = Done /\ c.current_value > ZERO THEN Initial
             ELSE IF p # Done /\ c.current_value = ZERO THEN Done
             ELSE p
        ELSE IF c.format < Ss
             THEN Editable("Seconds", c.mode)
             ELSE Editable("Minutes", c.mode)]

toggle_edit(c) ==
    [c EXCEPT !.mode =
        IF IsEditable(c.mode)
        THEN LET p == c.mode.prev IN
             IF p = Done /\ c.current_value > ZERO THEN Initial
             ELSE IF p # Done /\ c.current_value = ZERO THEN Done
             ELSE p
        ELSE IF c.format <= Ss
             THEN Editable("Seconds", c.mode)
             ELSE Editable("Minutes", c.mode)]

\* The unit of the field under the cursor, as both edit_current_up and
\* edit_current_down pair them.
UnitOf(time) ==
    IF time = "Decis" THEN ONE_DECI_SECOND
    ELSE IF time = "Seconds" THEN ONE_SECOND
    ELSE IF time = "Minutes" THEN ONE_MINUTE
    ELSE ONE_HOUR

\* The value edit_current_up assigns to current_value.
edit_current_up_value(c) ==
    IF ~IsEditable(c.mode) THEN c.current_value
    ELSE IF c.mode.time = "Decis"
    THEN IF c.current_value <= saturating_sub(MAX_DURATION, ONE_DECI_SECOND)
         THEN saturating_add(c.current_value, ONE_DECI_SECOND)
         ELSE c.current_value
    ELSE IF c.mode.time = "Seconds"
    THEN IF c.current_value <= saturating_sub(MAX_DURATION, ONE_SECOND)
         THEN saturating_add(c.current_value, ONE_SECOND)
         ELSE c.current_value
    ELSE IF c.mode.time = "Minutes"
    THEN IF c.current_value <= saturating_sub(MAX_DURATION, ONE_MINUTE)
         THEN saturating_add(c.current_value, ONE_MINUTE)
         ELSE c.current_value
    ELSE IF c.current_value < saturating_sub(MAX_DURATION, ONE_HOUR)
         THEN saturating_add(c.current_value, ONE_HOUR)
         ELSE c.current_value

edit_current_up(c) ==
    update_format([c EXCEPT !.current_value = edit_current_up_value(c)])

update_mode(c) ==
    [c EXCEPT !.mode =
        IF IsEditable(c.mode) /\ c.mode.time = "Hours" /\ c.format <= MmSs
        THEN Editable("Minutes", c.mode.prev)
        ELSE IF IsEditable(c.mode) /\ c.mode.time = "Minutes" /\ c.format <= Ss
        THEN Editable("Seconds", c.mode.prev)
        ELSE c.mode]

\* edit_current_down taking a whole hour off with the cursor on Minutes.
edit_current_down_value_hour(c) ==
    IF ~IsEditable(c.mode) THEN c.current_value
    ELSE IF c.mode.time = "Decis"
    THEN saturating_sub(c.current_value, ONE_DECI_SECOND)
    ELSE IF c.mode.time = "Seconds"
    THEN saturating_sub(c.current_value, ONE_SECOND)
    ELSE saturating_sub(c.current_value, ONE_HOUR)

\* The value edit_current_down assigns to current_value.
edit_current_down_value(c) ==
    IF ~IsEditable(c.mode) THEN c.current_value
    ELSE IF c.mode.time = "Decis"
    THEN saturating_sub(c.current_value, ONE_DECI_SECOND)
    ELSE IF c.mode.time = "Seconds"
    THEN saturating_sub(c.current_value, ONE_SECOND)
    ELSE IF c.mode.time = "Minutes"
    THEN saturating_sub(c.current_value, ONE_MINUTE)
    ELSE saturating_sub(c.current_value, ONE_HOUR)

edit_current_down(c) ==
    update_mode(update_format([c EXCEPT !.current_value = edit_current_down_value(c)]))

is_running(c) == c.mode = Tick

is_edit_mode(c) == IsEditable(c.mode)

is_done(c) == c.mode = Done

\* edit_mode_next cycling over every field whatever the format shows.
edit_mode_next_any_format(c) ==
    update_format([c EXCEPT !.mode =
        IF ~IsEditable(c.mode) THEN c.mode
        ELSE LET prev == c.mode.prev
                 time == c.mode.time IN
             IF time = "Decis" THEN Editable("Seconds", prev)
             ELSE IF time = "Seconds" THEN Editable("Minutes", prev)
             ELSE IF time = "Minutes" THEN Editable("Hours", prev)
             ELSE IF c.with_decis THEN Editable("Decis", prev)
             ELSE Editable("Seconds", prev)])

edit_mode_next(c) ==
    update_format([c EXCEPT !.mode =
        IF ~IsEditable(c.mode) THEN c.mode
        ELSE LET prev == c.mode.prev
                 time == c.mode.time IN
             IF time = "Decis" THEN Editable("Seconds", prev)
             ELSE IF time = "Seconds" /\ c.format <= Ss /\ c.with_decis
             THEN Editable("Decis", prev)
             ELSE IF time = "Seconds" /\ c.format <= Ss
             THEN Editable("Seconds", prev)
             ELSE IF time = "Seconds" THEN Editable("Minutes", prev)
             ELSE IF time = "Minutes" /\ c.format <= MmSs /\ c.with_decis
             THEN Editable("Decis", prev)
             ELSE IF time = "Minutes" /\ c.format <= MmSs
             THEN Editable("Seconds", prev)
             ELSE IF time = "Minutes" THEN Editable("Hours", prev)
             ELSE IF c.with_decis THEN Editable("Decis", prev)
             ELSE Editable("Seconds", prev)])

\* edit_mode_prev whose fall-through arm enters edit mode.
edit_mode_prev_enters(c) ==
    update_format([c EXCEPT !.mode =
        IF ~IsEditable(c.mode) THEN Editable("Seconds", c.mode)
        ELSE LET prev == c.mode.prev
                 time == c.mode.time IN
             IF time = "Decis" /\ c.format <= Ss THEN Editable("Seconds", prev)
             ELSE IF time = "Decis" /\ c.format <= MmSs
             THEN Editable("Minutes", prev)
             ELSE IF time = "Decis" /\ c.format <= HhMmSs
             THEN Editable("Hours", prev)
             ELSE IF time = "Seconds" /\ c.with_decis
             THEN Editable("Decis", prev)
             ELSE IF time = "Seconds" /\ c.format <= Ss
             THEN Editable("Seconds", prev)
             ELSE IF time = "Seconds" /\ c.format <= MmSs
             THEN Editable("Minutes", prev)
             ELSE IF time = "Seconds" /\ c.format <= HhMmSs
             THEN Editable("Hours", prev)
             ELSE IF time = "Minutes" THEN Editable("Seconds", prev)
             ELSE IF time = "Hours" THEN Editable("Minutes", prev)
             ELSE c.mode])

edit_mode_prev(c) ==
    update_format([c EXCEPT !.mode =
        IF ~IsEditable(c.mode) THEN c.mode
        ELSE LET prev == c.mode.prev
                 time == c.mode.time IN
             IF time = "Decis" /\ c.format <= Ss THEN Editable("Seconds", prev)
             ELSE IF time = "Decis" /\ c.format <= MmSs
             THEN Editable("Minutes", prev)
             ELSE IF time = "Decis" /\ c.format <= HhMmSs
             THEN Editable("Hours", prev)
             ELSE IF time = "Seconds" /\ c.with_decis
             THEN Editable("Decis", prev)
             ELSE IF time = "Seconds" /\ c.format <= Ss
             THEN Editable("Seconds", prev)
             ELSE IF time = "Seconds" /\ c.format <= MmSs
             THEN Editable("Minutes", prev)
             ELSE IF time = "Seconds" /\ c.format <= HhMmSs
             THEN Editable("Hours", prev)
             ELSE IF time = "Minutes" THEN Editable("Seconds", prev)
             ELSE IF time = "Hours" THEN Editable("Minutes", prev)
             ELSE c.mode])

\* edit_mode_next applied k times.
RECURSIVE edit_mode_next_times(_, _)
edit_mode_next_times(c, k) ==
    IF k = 0 THEN c ELSE edit_mode_next(edit_mode_next_times(c, k - 1))

\* The clocks at most k calls of edit_mode_next and edit_mode_prev away.
RECURSIVE CursorReach(_, _)
CursorReach(c, k) ==
    IF k = 0 THEN {c}
    ELSE LET near == CursorReach(c, k - 1)
         IN  near \cup {edit_mode_next(e) : e \in near}
                  \cup {edit_mode_prev(e) : e \in near}

\* reset that forgets to restore current_value.
reset_mode_only(c) == update_format([c EXCEPT !.mode = Initial])

\* reset without the trailing update_format.
reset_stale_format(c) ==
    [c EXCEPT !.mode = Initial, !.current_value = c.initial_value]

reset(c) ==
    update_format([c EXCEPT !.mode = Initial, !.current_value = c.initial_value])

-----------------------------------------------------------------------------
(* impl Clock<Countdown>                                                   *)

\* The mode Countdown::new picks.
Countdown_new_mode(a) ==
    IF a.current_value = ZERO THEN Done
    ELSE IF a.current_value = a.initial_value THEN Initial
    ELSE Pause

Countdown_new(a) ==
    update_format([initial_value |-> a.initial_value,
                   current_value |-> a.current_value,
                   tick_value |-> a.tick_value,
                   mode |-> Countdown_new_mode(a),
                   format |-> S,
                   style |-> a.style,
                   with_decis |-> a.with_decis])

\* Countdown::set_done that never marks the clock done.
Countdown_set_done_never(c) == c

Countdown_set_done(c) ==
    IF c.current_value = ZERO THEN [c EXCEPT !.mode = Done] ELSE c

\* The value Countdown::tick assigns to current_value.
Countdown_tick_value(c) == saturating_sub(c.current_value, c.tick_value)

\* Countdown::tick without the test of the mode.
Countdown_tick_any_mode(c) ==
    update_format(Countdown_set_done(
        [c EXCEPT !.current_value = Countdown_tick_value(c)]))

Countdown_tick(c) ==
    IF c.mode = Tick
    THEN update_format(Countdown_set_done(
             [c EXCEPT !.current_value = Countdown_tick_value(c)]))
    ELSE c

\* get_percentage_done over the remaining instead of the elapsed time.
get_percentage_done_remaining(c) ==
    (millis(c.current_value) * 100) \div millis(c.initial_value)

\* get_percentage_done rounded to the nearest integer instead of truncated.
get_percentage_done_rounded(c) ==
    LET elapsed == saturating_sub(c.initial_value, c.current_value)
    IN  (millis(elapsed) * 100 + millis(c.initial_value) \div 2)
            \div millis(c.initial_value)

get_percentage_done(c) ==
    LET elapsed == saturating_sub(c.initial_value, c.current_value)
    IN  (millis(elapsed) * 100) \div millis(c.initial_value)

Countdown_edit_next(c) == edit_mode_next(c)

Countdown_edit_prev(c) == edit_mode_prev(c)

\* Countdown::edit_up without the re-alignment to initial_value.
Countdown_edit_up_unclamped(c) == edit_current_up(c)

Countdown_edit_up(c) ==
    LET d == edit_current_up(c)
    IN  IF d.initial_value < d.current_value
        THEN [d EXCEPT !.current_value = d.initial_value]
        ELSE d

Countdown_edit_down(c) == edit_current_down(c)

-----------------------------------------------------------------------------
(* impl Clock<Timer>                                                       *)

\* The mode Timer::new picks.
\* The mode Timer::new starts in, with the test for Done made first.
Timer_new_mode_done_first(a) ==
    IF a.current_value >= MAX_DURATION THEN Done
    ELSE IF a.current_value = a.initial_value THEN Initial
    ELSE Pause

Timer_new_mode(a) ==
    IF a.current_value = a.initial_value THEN Initial
    ELSE IF a.current_value >= MAX_DURATION THEN Done
    ELSE Pause

Timer_new(a) ==
    update_format([initial_value |-> a.initial_value,
                   current_value |-> a.current_value,
                   tick_value |-> a.tick_value,
                   mode |-> Timer_new_mode(a),
                   format |-> S,
                   style |-> a.style,
                   with_decis |-> a.with_decis])

\* Timer::set_done one second early (99:59:58).
Timer_set_done_early(c) ==
    IF c.current_value >= saturating_sub(MAX_DURATION, ONE_SECOND)
    THEN [c EXCEPT !.mode = Done]
    ELSE c

Timer_set_done(c) ==
    IF c.current_value >= MAX_DURATION THEN [c EXCEPT !.mode = Done] ELSE c

\* Timer::tick adding without saturation.
Timer_tick_value_unchecked(c) == c.current_value + c.tick_value

\* The value Timer::tick assigns to current_value.
Timer_tick_value(c) == saturating_add(c.current_value, c.tick_value)

Timer_tick(c) ==
    IF c.mode = Tick
    THEN update_format(Timer_set_done(
             [c EXCEPT !.current_value = Timer_tick_value(c)]))
    ELSE c

Timer_edit_next(c) == edit_mode_next(c)

Timer_edit_prev(c) == edit_mode_prev(c)

Timer_edit_up(c) == edit_current_up(c)

Timer_edit_down(c) == edit_current_down(c)

-----------------------------------------------------------------------------
(* Dispatch on the variant tag.                                            *)

new(v, a) == IF v = "Countdown" THEN Countdown_new(a) ELSE Timer_new(a)
tick(v, c) == IF v = "Countdown" THEN Countdown_tick(c) ELSE Timer_tick(c)
edit_next(v, c) == IF v = "Countdown" THEN Countdown_edit_next(c) ELSE Timer_edit_next(c)
edit_prev(v, c) == IF v = "Countdown" THEN Countdown_edit_prev(c) ELSE Timer_edit_prev(c)
edit_up(v, c) == IF v = "Countdown" THEN Countdown_edit_up(c) ELSE Timer_edit_up(c)
edit_down(v, c) == IF v = "Countdown" THEN Countdown_edit_down(c) ELSE Timer_edit_down(c)

-----------------------------------------------------------------------------
(* struct ClockArgs: the construction inputs explored.                     *)

ClockArgs(i, c, t, d) ==
    [initial_value |-> i, current_value |-> c, tick_value |-> t,
     style |-> "Full", with_decis |-> d]

\* <<initial_value, current_value, tick_value>> of the countdowns explored.
CountdownValues ==
    { <<20, 20, ONE_SECOND>>,                      \* 2 s, done after two ticks
      <<20, 0, ONE_SECOND>>,                       \* constructed finished
      <<5700, 5700, ONE_SECOND>>,                  \* 9:30, one minute below Mm
      <<36050, 36050, ONE_DECI_SECOND>>,           \* 1:00:05
      <<600, 1200, ONE_SECOND>>,                   \* current above initial
      <<MAX_DURATION, MAX_DURATION - 5, 7>> }      \* at the maximum

\* <<initial_value, current_value, tick_value>> of the timers explored.
TimerValues ==
    { <<0, 0, ONE_DECI_SECOND>>,                   \* a fresh timer
      <<0, MAX_DURATION - 2, ONE_DECI_SECOND>>,    \* two ticks below the maximum
      <<0, MAX_DURATION - 5, ONE_HOUR>>,           \* one tick overshoots
      <<0, MAX_DURATION - ONE_SECOND, ONE_SECOND>>, \* one second below the maximum
      <<0, 590, ONE_SECOND>>,                      \* 0:59, one second below M
      <<0, ONE_HOUR, ONE_DECI_SECOND>>,            \* 1:00:00, the first to show hours
      <<0, 35990, ONE_SECOND>> }                   \* 59:59, one second below H

ArgsOf(v) ==
    { ClockArgs(t[1], t[2], t[3], d) :
        t \in (IF v = "Countdown" THEN CountdownValues ELSE TimerValues),
        d \in BOOLEAN }

-----------------------------------------------------------------------------
(* The clock driven by its owner: one action per public operation.         *)

Init ==
    /\ variant \in Variant
    /\ args \in ArgsOf(variant)
    /\ clock = new(variant, args)
    /\ last_op = "new"
    /\ steps = 0

\* An operation that never changes current_value by a unit or a tick.
Call(op, c) ==
    /\ clock' = c
    /\ last_op' = op
    /\ UNCHANGED <<variant, args, steps>>

\* An operation that may: counted when the mode lets it act.
Step(op, acts, c) ==
    /\ acts => steps < MaxSteps
    /\ clock' = c
    /\ last_op' = op
    /\ steps' = IF acts THEN steps + 1 ELSE steps
    /\ UNCHANGED <<variant, args>>

TogglePause == Call("toggle_pause", toggle_pause(clock))

ToggleEdit == Call("toggle_edit", toggle_edit(clock))

EditNext == Call("edit_next", edit_next(variant, clock))

EditPrev == Call("edit_prev", edit_prev(variant, clock))

EditUp == Step("edit_up", IsEditable(clock.mode), edit_up(variant, clock))

EditDown == Step("edit_down", IsEditable(clock.mode), edit_down(variant, clock))

DoTick == Step("tick", clock.mode = Tick, tick(variant, clock))

Reset == Call("reset", reset(clock))

Next ==
    \/ TogglePause
    \/ ToggleEdit
    \/ EditNext
    \/ EditPrev
    \/ EditUp
    \/ EditDown
    \/ DoTick
    \/ Reset

Spec == Init /\ [][Next]_vars

-----------------------------------------------------------------------------
(* The clock left running: started with toggle_pause, then only ticked on  *)
(* the driver's fixed cadence.                                             *)

\* <<initial_value, current_value, tick_value>> of the countdowns left running.
CountdownRuns ==
    { <<900, 900, ONE_SECOND>>,                    \* 90 s, tick 1 s
      <<900, 450, 7>>,                             \* the last tick overshoots
      <<20, 20, ONE_DECI_SECOND>>,
      <<0, 0, ONE_SECOND>> }                       \* started at zero

\* <<initial_value, current_value, tick_value>> of the timers left running.
TimerRuns ==
    { <<0, MAX_DURATION - 50, ONE_DECI_SECOND>>,
      <<0, MAX_DURATION - 100, 7>>,                \* the last tick overshoots
      <<0, 0, ONE_HOUR>>,
      <<0, MAX_DURATION, ONE_SECOND>> }            \* started at the maximum

RunArgsOf(v) ==
    { ClockArgs(t[1], t[2], t[3], d) :
        t \in (IF v = "Countdown" THEN CountdownRuns ELSE TimerRuns),
        d \in BOOLEAN }

RunInit ==
    /\ variant \in Variant
    /\ args \in RunArgsOf(variant)
    /\ clock = toggle_pause(new(variant, args))
    /\ last_op = "toggle_pause"
    /\ steps = 0

RunTick ==
    /\ clock' = tick(variant, clock)
    /\ last_op' = "tick"
    /\ steps' = IF clock.mode = Tick THEN steps + 1 ELSE steps
    /\ UNCHANGED <<variant, args>>

RunNext == RunTick

RunSpec == RunInit /\ [][RunNext]_vars /\ WF_vars(RunNext)

-----------------------------------------------------------------------------
(* The clock constructed on either side of every format threshold, with and *)
(* without a decisecond part, then edited and reset.                        *)

\* current_value of the clocks probed: both sides of each threshold of
\* get_format.
FormatProbes ==
    { ZERO, 9, 99, 100, 109, 599, 600, 5999, 6000, 35999, 36000, 36599,
      359999, 360000, MAX_DURATION }

\* initial_value of the clocks probed, which reset() makes current.
FormatResets == { ZERO, 6000, MAX_DURATION }

FormatInit ==
    /\ variant \in Variant
    /\ args \in { ClockArgs(i, c, ONE_SECOND, d) :
                    i \in FormatResets, c \in FormatProbes, d \in BOOLEAN }
    /\ clock = new(variant, args)
    /\ last_op = "new"
    /\ steps = 0

FormatNext ==
    \/ ToggleEdit
    \/ EditUp
    \/ EditDown
    \/ Reset

FormatSpec == FormatInit /\ [][FormatNext]_vars

-----------------------------------------------------------------------------
(* The clock constructed from any pair of values, also by a session that   *)
(* starts over with a new clock.                                           *)

\* initial_value and current_value of the clocks constructed.
ConstructValues == { ZERO, 20, 5700, ONE_HOUR, MAX_DURATION - ONE_SECOND, MAX_DURATION }

ConstructArgs ==
    { ClockArgs(i, c, ONE_SECOND, d) :
        i \in ConstructValues, c \in ConstructValues, d \in BOOLEAN }

ConstructInit ==
    /\ variant \in Variant
    /\ args \in ConstructArgs
    /\ clock = new(variant, args)
    /\ last_op = "new"
    /\ steps = 0

Construct ==
    /\ variant' \in Variant
    /\ args' \in ConstructArgs
    /\ clock' = new(variant', args')
    /\ last_op' = "new"
    /\ UNCHANGED steps

ConstructNext ==
    \/ Construct
    \/ TogglePause
    \/ ToggleEdit

ConstructSpec == ConstructInit /\ [][ConstructNext]_vars

-----------------------------------------------------------------------------
(* The clock of any style, its owner switching to the next style.          *)

StyleInit ==
    /\ variant \in Variant
    /\ args \in { [a EXCEPT !.style = style] :
                    a \in ArgsOf(variant), style \in Style }
    /\ clock = new(variant, args)
    /\ last_op = "new"
    /\ steps = 0

NextStyle ==
    Call("style_next", [clock EXCEPT !.style = Style_next(clock.style)])

StyleNext ==
    \/ NextStyle
    \/ TogglePause

StyleSpec == StyleInit /\ [][StyleNext]_vars

-----------------------------------------------------------------------------
(* impl ClockWidget: the layout of the segments and the render pass.  A    *)
(* render pass is the sequence of what it does with each area it gets from *)
(* the layout, in the order of the areas.                                  *)

DIGIT_SIZE == 5
DIGIT_WIDTH == DIGIT_SIZE
DIGIT_HEIGHT == DIGIT_SIZE + 1
COLON_WIDTH == 4
SPACE_WIDTH == 1

\* The closure add_decis of get_horizontal_lengths.
add_decis(lengths, with_decis) ==
    IF with_decis THEN lengths \o <<COLON_WIDTH, DIGIT_WIDTH>> ELSE lengths

\* get_horizontal_lengths without the space between the two second digits
\* of Ss.
get_horizontal_lengths_no_space(format, with_decis) ==
    add_decis(
        IF format = HhMmSs
        THEN <<DIGIT_WIDTH, SPACE_WIDTH, DIGIT_WIDTH, COLON_WIDTH, DIGIT_WIDTH, SPACE_WIDTH, DIGIT_WIDTH, COLON_WIDTH, DIGIT_WIDTH, SPACE_WIDTH, DIGIT_WIDTH>>
        ELSE IF format = HMmSs
        THEN <<DIGIT_WIDTH, COLON_WIDTH, DIGIT_WIDTH, SPACE_WIDTH, DIGIT_WIDTH, COLON_WIDTH, DIGIT_WIDTH, SPACE_WIDTH, DIGIT_WIDTH>>
        ELSE IF format = MmSs
        THEN <<DIGIT_WIDTH, SPACE_WIDTH, DIGIT_WIDTH, COLON_WIDTH, DIGIT_WIDTH, SPACE_WIDTH, DIGIT_WIDTH>>
        ELSE IF format = MSs
        THEN <<DIGIT_WIDTH, COLON_WIDTH, DIGIT_WIDTH, SPACE_WIDTH, DIGIT_WIDTH>>
        ELSE IF format = Ss
        THEN <<DIGIT_WIDTH, DIGIT_WIDTH>>
        ELSE <<DIGIT_WIDTH>>,
        with_decis)

get_horizontal_lengths(format, with_decis) ==
    add_decis(
        IF format = HhMmSs
        THEN <<DIGIT_WIDTH, SPACE_WIDTH, DIGIT_WIDTH, COLON_WIDTH, DIGIT_WIDTH, SPACE_WIDTH, DIGIT_WIDTH, COLON_WIDTH, DIGIT_WIDTH, SPACE_WIDTH, DIGIT_WIDTH>>
        ELSE IF format = HMmSs
        THEN <<DIGIT_WIDTH, COLON_WIDTH, DIGIT_WIDTH, SPACE_WIDTH, DIGIT_WIDTH, COLON_WIDTH, DIGIT_WIDTH, SPACE_WIDTH, DIGIT_WIDTH>>
        ELSE IF format = MmSs
        THEN <<DIGIT_WIDTH, SPACE_WIDTH, DIGIT_WIDTH, COLON_WIDTH, DIGIT_WIDTH, SPACE_WIDTH, DIGIT_WIDTH>>
        ELSE IF format = MSs
        THEN <<DIGIT_WIDTH, COLON_WIDTH, DIGIT_WIDTH, SPACE_WIDTH, DIGIT_WIDTH>>
        ELSE IF format = Ss
        THEN <<DIGIT_WIDTH, SPACE_WIDTH, DIGIT_WIDTH>>
        ELSE <<DIGIT_WIDTH>>,
        with_decis)

RECURSIVE Sum(_)
Sum(lengths) ==
    IF lengths = <<>> THEN 0 ELSE Head(lengths) + Sum(Tail(lengths))

get_width(format, with_decis) == Sum(get_horizontal_lengths(format, with_decis))

get_height == DIGIT_HEIGHT

\* The glyphs render_digit chooses from.
DIGITS ==
    <<"DIGIT_0", "DIGIT_1", "DIGIT_2", "DIGIT_3", "DIGIT_4",
      "DIGIT_5", "DIGIT_6", "DIGIT_7", "DIGIT_8", "DIGIT_9">>

\* render_digit without the arm for 9.
render_digit_no_9(number, with_border, area) ==
    [draws |-> "digit", area |-> area, number |-> number,
     symbols |-> IF number \in 0..8 THEN DIGITS[number + 1] ELSE "DIGIT_ERROR",
     with_border |-> with_border]

\* What render_digit paints into an area: the glyph of the number, and the
\* bottom border when with_border is set.
render_digit(number, with_border, area) ==
    [draws |-> "digit", area |-> area, number |-> number,
     symbols |-> IF number \in 0..9 THEN DIGITS[number + 1] ELSE "DIGIT_ERROR",
     with_border |-> with_border]

render_colon(area) == [draws |-> "colon", area |-> area]

render_dot(area) == [draws |-> "dot", area |-> area]

\* An area the render pass binds to _ and leaves empty.
not_rendered(area) == [draws |-> "nothing", area |-> area]

render(c) ==
    LET edit_hours == IsEditable(c.mode) /\ c.mode.time = "Hours"
        edit_minutes == IsEditable(c.mode) /\ c.mode.time = "Minutes"
        edit_secs == IsEditable(c.mode) /\ c.mode.time = "Seconds"
        edit_deci == IsEditable(c.mode) /\ c.mode.time = "Decis"
        hh == render_digit(hours(c.current_value) \div 10, edit_hours, "hh")
        h == render_digit(hours(c.current_value) % 10, edit_hours, "h")
        mm == render_digit(minutes_mod(c.current_value) \div 10, edit_minutes, "mm")
        m == render_digit(minutes_mod(c.current_value) % 10, edit_minutes, "m")
        ss == render_digit(seconds_mod(c.current_value) \div 10, edit_secs, "ss")
        s == render_digit(seconds_mod(c.current_value) % 10, edit_secs, "s")
        ds == render_digit(decis(c.current_value), edit_deci, "ds")
        c_hm == render_colon("c_hm")
        c_ms == render_colon("c_ms")
        d == render_dot("d")
        gap == not_rendered("_")
    IN  IF c.format = HhMmSs /\ c.with_decis
        THEN <<hh, gap, h, c_hm, mm, gap, m, c_ms, ss, gap, s, d, ds>>
        ELSE IF c.format = HhMmSs
        THEN <<hh, gap, h, c_hm, mm, gap, m, c_ms, ss, gap, s>>
        ELSE IF c.format = HMmSs /\ c.with_decis
        THEN <<h, c_hm, mm, gap, m, c_ms, ss, gap, s, d, ds>>
        ELSE IF c.format = HMmSs
        THEN <<h, c_hm, mm, gap, m, c_ms, ss, gap, s>>
        ELSE IF c.format = MmSs /\ c.with_decis
        THEN <<mm, gap, m, c_ms, ss, gap, s, d, ds>>
        ELSE IF c.format = MmSs
        THEN <<mm, gap, m, c_ms, ss, gap, s>>
        ELSE IF c.format = MSs /\ c.with_decis
        THEN <<m, c_ms, ss, gap, s, d, ds>>
        ELSE IF c.format = MSs
        THEN <<m, c_ms, ss, gap, s>>
        ELSE IF c.format = Ss /\ c.with_decis
        THEN <<ss, gap, s, d, ds>>
        ELSE IF c.format = Ss
        THEN <<ss, gap, s>>
        ELSE IF c.format = S /\ c.with_decis
        THEN <<s, d, ds>>
        ELSE <<s>>

-----------------------------------------------------------------------------
(* Properties.                                                             *)

\* C1: for both variants, constructed within [0, MAX_DURATION], current_value
\* stays within [0, MAX_DURATION] after any sequence of operations; a Timer
\* tick saturates at MAX_DURATION.
C1_CurrentValueInRange ==
    (/\ args.initial_value \in 0..MAX_DURATION
     /\ args.current_value \in 0..MAX_DURATION)
    => clock.current_value \in 0..MAX_DURATION

\* A Timer whose one tick would have passed the maximum sits at it.
C1_Witness ==
    /\ variant = "Timer"
    /\ last_op = "tick"
    /\ steps = 1
    /\ args.current_value + args.tick_value > MAX_DURATION
    /\ clock.current_value = MAX_DURATION

\* C2: a Countdown constructed with current_value <= initial_value keeps
\* current_value <= initial_value; its edit_up yields the smaller of the
\* incremented value and initial_value, the Timer's edit_up the incremented
\* value as it is.
C2_CountdownBelowInitial ==
    /\ []((variant = "Countdown" /\ args.current_value <= args.initial_value)
          => clock.current_value <= clock.initial_value)
    /\ [][last_op' = "edit_up" =>
            clock'.current_value =
                IF variant = "Countdown"
                THEN Min(edit_current_up_value(clock), clock.initial_value)
                ELSE edit_current_up_value(clock)]_vars

\* A Countdown edited up from its initial value is back at its initial value.
C2_Witness ==
    /\ variant = "Countdown"
    /\ last_op = "edit_up"
    /\ steps = 1
    /\ IsEditable(clock.mode)
    /\ args.current_value = args.initial_value
    /\ args.initial_value + ONE_HOUR < MAX_DURATION
    /\ clock.current_value = clock.initial_value

\* C3, as stated: in every reachable state of a Countdown the mode is Done
\* if and only if current_value is zero.
C3_DoneIffZero ==
    variant = "Countdown" => (clock.mode = Done <=> clock.current_value = ZERO)

\* C3, amended: a Countdown in mode Done has current_value zero; and a tick in
\* mode Tick or leaving edit mode that ends with current_value zero ends in Done.
C3_DoneOnlyAtZero ==
    /\ [](variant = "Countdown" => (clock.mode = Done => clock.current_value = ZERO))
    /\ [][(/\ variant = "Countdown"
           /\ \/ last_op' = "tick" /\ clock.mode = Tick
              \/ last_op' = "toggle_edit" /\ IsEditable(clock.mode)
           /\ clock'.current_value = ZERO)
          => clock'.mode = Done]_vars

\* A Countdown ticked down to zero is Done.
C3_Witness ==
    /\ variant = "Countdown"
    /\ last_op = "tick"
    /\ steps > 0
    /\ args.current_value > ZERO
    /\ clock.current_value = ZERO
    /\ clock.mode = Done

\* C4, as stated: in every reachable state of a Timer the mode is Done if and
\* only if current_value >= MAX_DURATION.
C4_DoneIffMax ==
    variant = "Timer" => (clock.mode = Done <=> clock.current_value >= MAX_DURATION)

\* C5, as stated: after every operation the cached format equals get_format()
\* of current_value.
C5_FormatIsCache == clock.format = get_format(clock)

\* C6: tick() changes nothing whenever the mode is not Tick.
C6_TickOnlyInTick ==
    [][(last_op' = "tick" /\ clock.mode # Tick) => clock' = clock]_vars

\* A tick was delivered while editing a clock that was running.
C6_Witness ==
    /\ last_op = "tick"
    /\ IsEditable(clock.mode)
    /\ clock.mode.prev = Tick

\* C7: a Countdown in mode Tick with tick_value > 0 that is only ticked never
\* increases and never goes below zero, a tick ends in Done exactly when it
\* ends at zero, the clock eventually is Done, and further ticks change nothing.
C7_CountdownRunsDown ==
    /\ [][(variant = "Countdown" /\ args.tick_value > ZERO) =>
            /\ clock'.current_value <= clock.current_value
            /\ clock'.current_value >= ZERO
            /\ clock.mode = Tick =>
                   (clock'.mode = Done <=> clock'.current_value = ZERO)
            /\ clock.mode = Done => clock' = clock]_vars
    /\ (variant = "Countdown" /\ args.tick_value > ZERO) => <>(clock.mode = Done)

\* A Countdown whose last tick was larger than what remained is Done at zero.
C7_Witness ==
    /\ variant = "Countdown"
    /\ last_op = "tick"
    /\ args.tick_value > ZERO
    /\ args.current_value % args.tick_value # 0
    /\ clock.mode = Done
    /\ clock.current_value = ZERO

\* C8: a Timer in mode Tick with tick_value > 0 that is only ticked eventually
\* is Done with current_value at MAX_DURATION, never beyond it, and once Done
\* later ticks leave mode and current_value unchanged.
C8_TimerRunsUp ==
    /\ [](variant = "Timer" => clock.current_value <= MAX_DURATION)
    /\ [][(variant = "Timer" /\ clock.mode = Done) =>
            /\ clock'.mode = Done
            /\ clock'.current_value = clock.current_value]_vars
    /\ (variant = "Timer" /\ args.tick_value > ZERO) =>
            <>(clock.mode = Done /\ clock.current_value >= MAX_DURATION)

\* A Timer ticked up from below the maximum is Done at the maximum.
C8_Witness ==
    /\ variant = "Timer"
    /\ last_op = "tick"
    /\ steps > 1
    /\ args.current_value < MAX_DURATION
    /\ clock.mode = Done
    /\ clock.current_value = MAX_DURATION

\* C9: a Countdown whose initial_value = current_value is n times tick_value,
\* started with toggle_pause, is not Done after fewer than n ticks, and after
\* n ticks it is Done at zero with get_percentage_done() = 100.
C9_DoneAfterNTicks ==
    (/\ variant = "Countdown"
     /\ args.tick_value > ZERO
     /\ args.initial_value > ZERO
     /\ args.current_value = args.initial_value
     /\ args.initial_value % args.tick_value = 0)
    => LET n == args.initial_value \div args.tick_value IN
       /\ steps < n => clock.mode # Done
       /\ steps = n => /\ clock.mode = Done
                       /\ clock.current_value = ZERO
                       /\ get_percentage_done(clock) = 100

\* The 90 s countdown after its 90 ticks of 1 s.
C9_Witness ==
    /\ variant = "Countdown"
    /\ args.initial_value = from_secs(90)
    /\ args.current_value = from_secs(90)
    /\ args.tick_value = ONE_SECOND
    /\ steps = 90
    /\ clock.mode = Done

\* C10, as stated: from every reachable non-Editable mode, toggle_edit() twice
\* with no change of current_value in between restores the mode, and leaves
\* current_value and format unchanged.
C10_ToggleEditTwice ==
    ~IsEditable(clock.mode) => toggle_edit(toggle_edit(clock)) = clock

\* C11: leaving edit mode yields Done if it was entered from a mode other than
\* Done and current_value is zero, Initial if it was entered from Done and
\* current_value is above zero, and the previous mode in every other case;
\* current_value is left as edited.
C11_LeaveEdit ==
    [][(last_op' = "toggle_edit" /\ IsEditable(clock.mode)) =>
        /\ clock'.current_value = clock.current_value
        /\ (clock.mode.prev # Done /\ clock.current_value = ZERO)
               => clock'.mode = Done
        /\ (clock.mode.prev = Done /\ clock.current_value > ZERO)
               => clock'.mode = Initial
        /\ (clock.mode.prev = Done <=> clock.current_value = ZERO)
               => clock'.mode = clock.mode.prev]_vars

\* The 1:00:05 countdown edited down to zero and edit mode left.
C11_Witness ==
    /\ variant = "Countdown"
    /\ args.current_value = 36050
    /\ last_op = "toggle_edit"
    /\ clock.current_value = ZERO
    /\ clock.mode = Done

\* C12: toggle_pause() sets Pause from Tick and Tick from every other mode,
\* changes neither current_value, initial_value nor format, and two calls in
\* a row from Tick or from Pause restore the mode.
C12_TogglePause ==
    /\ [][last_op' = "toggle_pause" =>
            /\ clock.mode = Tick => clock'.mode = Pause
            /\ clock.mode # Tick => clock'.mode = Tick
            /\ clock'.current_value = clock.current_value
            /\ clock'.initial_value = clock.initial_value
            /\ clock'.format = clock.format]_vars
    /\ [](clock.mode \in {Tick, Pause} =>
            toggle_pause(toggle_pause(clock)) = clock)

\* A clock that ran, and was paused.
C12_Witness ==
    /\ last_op = "toggle_pause"
    /\ steps > 0
    /\ clock.mode = Pause

\* C13: entering edit mode from a mode m that is not Editable yields
\* Editable(field, m), field being Seconds if the format is S or Ss and
\* Minutes otherwise; current_value is unchanged.
C13_EnterEdit ==
    [][(last_op' = "toggle_edit" /\ ~IsEditable(clock.mode)) =>
        /\ clock'.mode =
               Editable(IF clock.format \in {S, Ss} THEN "Seconds" ELSE "Minutes",
                        clock.mode)
        /\ clock'.current_value = clock.current_value]_vars

\* Edit mode entered on Seconds from a paused clock showing two second digits.
C13_Witness ==
    /\ last_op = "toggle_edit"
    /\ clock.format = Ss
    /\ clock.mode = Editable("Seconds", Pause)

\* C14, as stated: in every reachable Editable(field, _) state the cursor is
\* on a field the format shows: Hours only for HMmSs and HhMmSs, Minutes only
\* for MSs and wider, Decis only with with_decis.
C14_CursorOnShownField ==
    IsEditable(clock.mode) =>
        clock.mode.time \in ShownFields(clock.format, clock.with_decis)

\* C15, as stated: from any reachable Editable cursor, repeated edit_next()
\* visits only fields the format shows and is back on the starting field after
\* exactly as many calls as there are such fields; with Seconds alone it stays
\* on Seconds.
C15_EditNextCycle ==
    IsEditable(clock.mode) =>
        LET fields == ShownFields(clock.format, clock.with_decis)
            n == Cardinality(fields)
        IN  /\ \A k \in 0..n : edit_mode_next_times(clock, k).mode.time \in fields
            /\ edit_mode_next_times(clock, n).mode = clock.mode
            /\ \A k \in 1..(n - 1) : edit_mode_next_times(clock, k).mode # clock.mode
            /\ fields = {"Seconds"} => edit_mode_next(clock).mode.time = "Seconds"

\* C16, as stated: from every reachable Editable state, edit_next() then
\* edit_prev(), and edit_prev() then edit_next(), are back on the same field.
C16_PrevMirrorsNext ==
    IsEditable(clock.mode) =>
        /\ edit_mode_prev(edit_mode_next(clock)).mode = clock.mode
        /\ edit_mode_next(edit_mode_prev(clock)).mode = clock.mode

\* C17, as stated: with the cursor on a field of unit u, edit_current_up()
\* leaves current_value alone whenever current_value + u would meet or exceed
\* MAX_DURATION and otherwise adds exactly u; outside Editable it never
\* changes current_value.
C17_EditUpBelowMax ==
    edit_current_up(clock).current_value =
        IF ~IsEditable(clock.mode) THEN clock.current_value
        ELSE IF clock.current_value + UnitOf(clock.mode.time) >= MAX_DURATION
        THEN clock.current_value
        ELSE clock.current_value + UnitOf(clock.mode.time)

\* C18: with the cursor on a field of unit u, edit_down() takes exactly u off
\* current_value when current_value >= u and sets it to zero otherwise;
\* outside Editable it changes neither current_value nor mode.
C18_EditDownSaturates ==
    [][last_op' = "edit_down" =>
        IF IsEditable(clock.mode)
        THEN LET u == UnitOf(clock.mode.time)
             IN  /\ clock.current_value >= u =>
                        clock'.current_value = clock.current_value - u
                 /\ clock.current_value < u => clock'.current_value = ZERO
                 /\ clock'.current_value >= ZERO
        ELSE /\ clock'.current_value = clock.current_value
             /\ clock'.mode = clock.mode]_vars

\* C18's case: 1:00:05 lowered by one hour, then by one minute it does not
\* have, which leaves zero.
C18_Witness ==
    /\ last_op = "edit_down"
    /\ args.current_value = 36050
    /\ IsEditable(clock.mode)
    /\ steps = 2
    /\ clock.current_value = ZERO

\* C19: get_format() depends on current_value alone and not on its
\* decisecond part; it is HhMmSs from 10 h, HMmSs from 1 h, MmSs from 10 min,
\* MSs from 1 min, Ss from 10 s and S below; and a larger value never has a
\* smaller format.
C19_FormatThresholds ==
    LET cur == clock.current_value
        format_of(v) == get_format([clock EXCEPT !.current_value = v])
    IN  /\ get_format(clock) =
               IF cur >= 10 * ONE_HOUR THEN HhMmSs
               ELSE IF cur >= ONE_HOUR THEN HMmSs
               ELSE IF cur >= 10 * ONE_MINUTE THEN MmSs
               ELSE IF cur >= ONE_MINUTE THEN MSs
               ELSE IF cur >= 10 * ONE_SECOND THEN Ss
               ELSE S
        /\ format_of(cur - decis(cur)) = get_format(clock)
        /\ \A m \in {Initial, Tick, Pause, Done}, d \in BOOLEAN, f \in Format :
               get_format([clock EXCEPT !.mode = m, !.with_decis = d,
                                        !.format = f, !.initial_value = ZERO])
                   = get_format(clock)
        /\ \A b \in FormatProbes \cup {clock.initial_value} :
               /\ cur <= b => get_format(clock) <= format_of(b)
               /\ b <= cur => format_of(b) <= get_format(clock)

\* C19's case: 1:00:59.9 lowered by one minute to 59:59.9, one decisecond
\* below the hour, is MmSs.
C19_Witness ==
    /\ last_op = "edit_down"
    /\ args.current_value = 36599
    /\ clock.current_value = 35999
    /\ decis(clock.current_value) # 0
    /\ get_format(clock) = MmSs

\* C20: for a Countdown with initial_value > 0, get_percentage_done() is the
\* integer part of the elapsed share of initial_value in percent (the elapsed
\* time being the duration initial_value - current_value), lies in 0..100, is
\* 100 exactly when current_value is zero, and never decreases under tick().
C20_PercentageDone ==
    /\ []((variant = "Countdown" /\ clock.initial_value > ZERO) =>
            LET elapsed == IF clock.current_value >= clock.initial_value
                           THEN ZERO
                           ELSE clock.initial_value - clock.current_value
            IN  /\ get_percentage_done(clock) =
                       (elapsed * 100) \div clock.initial_value
                /\ get_percentage_done(clock) \in 0..100
                /\ get_percentage_done(clock) = 100 <=>
                       clock.current_value = ZERO)
    /\ [][(variant = "Countdown" /\ clock.initial_value > ZERO
                /\ last_op' = "tick") =>
            get_percentage_done(clock') >= get_percentage_done(clock)]_vars

\* C20's case: the 9:30 countdown after one tick of a second and one minute
\* taken off, 61 s of 570 s elapsed, which is 10.7 percent.
C20_Witness ==
    /\ variant = "Countdown"
    /\ args.current_value = 5700
    /\ clock.initial_value = 5700
    /\ clock.current_value = 5090
    /\ last_op = "tick"
    /\ get_percentage_done(clock) = 10

\* C21, as stated: on a fresh Timer (initial_value = 0, tick_value = 1
\* decisecond) edit mode can be entered and the cursor brought to the Hours
\* field, and a single edit_up() there makes current_value exactly 1 hour and
\* the format HMmSs.
C21_HoursUpOnFreshTimer ==
    (/\ variant = "Timer"
     /\ last_op = "new"
     /\ args.initial_value = ZERO
     /\ args.current_value = ZERO
     /\ args.tick_value = ONE_DECI_SECOND) =>
        \E e \in CursorReach(toggle_edit(clock), 4) :
            /\ e.mode.time = "Hours"
            /\ edit_up(variant, e).current_value = ONE_HOUR
            /\ edit_up(variant, e).format = HMmSs

\* C21, amended: on a Timer with initial_value = 0 and tick_value = 1
\* decisecond the cursor is on the Hours field only while current_value is at
\* least 1 hour; a single edit_up() there adds exactly one hour when the sum
\* stays below MAX_DURATION and is a no-op otherwise, and the format is that
\* of the new value: from exactly 1 hour it gives 2 hours and HMmSs.
C21_HoursUpAddsHour ==
    /\ []((/\ variant = "Timer"
           /\ args.initial_value = ZERO
           /\ args.tick_value = ONE_DECI_SECOND
           /\ IsEditable(clock.mode)
           /\ clock.mode.time = "Hours") => clock.current_value >= ONE_HOUR)
    /\ [][(/\ variant = "Timer"
           /\ args.initial_value = ZERO
           /\ args.tick_value = ONE_DECI_SECOND
           /\ IsEditable(clock.mode)
           /\ clock.mode.time = "Hours"
           /\ last_op' = "edit_up") =>
            /\ clock'.current_value =
                   IF clock.current_value + ONE_HOUR < MAX_DURATION
                   THEN clock.current_value + ONE_HOUR
                   ELSE clock.current_value
            /\ clock'.format = get_format(clock')
            /\ clock.current_value = ONE_HOUR =>
                   /\ clock'.current_value = 2 * ONE_HOUR
                   /\ clock'.format = HMmSs]_vars

\* C21's case: the timer at 1:00:00, cursor on Hours, after one edit_up().
C21_Witness ==
    /\ variant = "Timer"
    /\ args.initial_value = ZERO
    /\ args.current_value = ONE_HOUR
    /\ args.tick_value = ONE_DECI_SECOND
    /\ last_op = "edit_up"
    /\ steps = 1
    /\ clock.mode = Editable("Hours", Pause)
    /\ clock.current_value = 2 * ONE_HOUR
    /\ clock.format = HMmSs

\* C22: reset() from any mode sets the mode to Initial, current_value to
\* initial_value and the format to the format of initial_value, and leaves
\* initial_value, tick_value, style and with_decis as they were.
C22_Reset ==
    [][last_op' = "reset" =>
        /\ clock'.mode = Initial
        /\ clock'.current_value = clock.initial_value
        /\ clock'.format =
               get_format([clock EXCEPT !.current_value = clock.initial_value])
        /\ clock'.initial_value = clock.initial_value
        /\ clock'.tick_value = clock.tick_value
        /\ clock'.style = clock.style
        /\ clock'.with_decis = clock.with_decis]_vars

\* C22's case: the timer constructed at 0:59 (format Ss) reset to its
\* initial_value of zero, format S.
C22_Witness ==
    /\ variant = "Timer"
    /\ args.current_value = 590
    /\ last_op = "reset"
    /\ clock.mode = Initial
    /\ clock.current_value = ZERO
    /\ clock.format = S

\* C23: for every (Format, with_decis) pair, get_width() is the sum of the
\* segment widths (digit 5, colon 4, space 1): 5, 11, 20, 26, 35, 41 for S
\* to HhMmSs without deciseconds and 9 more with them; there are exactly as
\* many segments as areas the render pass takes for the pair, each as wide
\* as what is drawn in it; get_height() is 6.
C23_Widths ==
    /\ get_height = 6
    /\ \A f \in Format, d \in BOOLEAN :
           LET lengths == get_horizontal_lengths(f, d)
               areas == render([clock EXCEPT !.format = f, !.with_decis = d])
           IN  /\ get_width(f, d) =
                      <<5, 11, 20, 26, 35, 41>>[f + 1] + (IF d THEN 9 ELSE 0)
               /\ Len(lengths) = Len(areas)
               /\ \A i \in 1..Len(lengths) :
                      i <= Len(areas) =>
                          lengths[i] =
                              IF areas[i].draws = "digit" THEN 5
                              ELSE IF areas[i].draws = "nothing" THEN 1
                              ELSE 4

\* C23's case: 9.9 s raised by a second shows two second digits, 5 + 1 + 5
\* cells in three areas.
C23_Witness ==
    /\ last_op = "edit_up"
    /\ clock.format = Ss
    /\ ~clock.with_decis
    /\ get_width(clock.format, clock.with_decis) = 11
    /\ Len(render(clock)) = 3

\* C24: in every reachable state of either variant, every number the render
\* pass hands to render_digit (the tens and units of hours, minutes_mod and
\* seconds_mod, and decis) lies in 0..9, so the error glyph is never drawn.
C24_DigitsInRange ==
    /\ \A number \in { hours(clock.current_value) \div 10,
                        hours(clock.current_value) % 10,
                        minutes_mod(clock.current_value) \div 10,
                        minutes_mod(clock.current_value) % 10,
                        seconds_mod(clock.current_value) \div 10,
                        seconds_mod(clock.current_value) % 10,
                        decis(clock.current_value) } : number \in 0..9
    /\ LET areas == render(clock)
       IN  \A i \in 1..Len(areas) :
               areas[i].draws = "digit" =>
                   /\ areas[i].number \in 0..9
                   /\ areas[i].symbols # "DIGIT_ERROR"

\* C24's case: the timer ticked up to 99:59:59, drawn with 9 as the first
\* digit of the hours.
C24_Witness ==
    /\ variant = "Timer"
    /\ last_op = "tick"
    /\ clock.current_value = MAX_DURATION
    /\ clock.format = HhMmSs
    /\ render(clock)[1].draws = "digit"
    /\ render(clock)[1].number = 9

\* C25: Style::next() goes Full, Dark, Medium, Light, Braille, Thick, Cross
\* and back to Full: from any style, 7 applications return to it, no fewer
\* do, and all seven styles are visited on the way.
C25_StyleCycle ==
    LET order == <<"Full", "Dark", "Medium", "Light", "Braille", "Thick", "Cross">>
    IN  /\ Cardinality(Style) = 7
        /\ clock.style \in Style
        /\ \E i \in 1..7 :
               /\ order[i] = clock.style
               /\ Style_next(clock.style) = order[(i % 7) + 1]
        /\ Style_next_times(clock.style, 7) = clock.style
        /\ \A k \in 1..6 : Style_next_times(clock.style, k) # clock.style
        /\ {Style_next_times(clock.style, k) : k \in 0..6} = Style

\* C25's case: the clock constructed Full, switched on to Cross, the last
\* style before Full again.
C25_Witness ==
    /\ args.style = "Full"
    /\ last_op = "style_next"
    /\ clock.style = "Cross"
    /\ Style_next(clock.style) = "Full"

\* C26: edit_next() and edit_prev() never change current_value,
\* initial_value or the previous mode kept inside Editable, and outside
\* Editable they leave the mode as it is: of the mode only the cursor field
\* may change (the format is recomputed).
C26_CursorMoveFrame ==
    [][last_op' \in {"edit_next", "edit_prev"} =>
        /\ clock'.current_value = clock.current_value
        /\ clock'.initial_value = clock.initial_value
        /\ clock'.tick_value = clock.tick_value
        /\ clock'.style = clock.style
        /\ clock'.with_decis = clock.with_decis
        /\ clock'.format = get_format(clock)
        /\ IF IsEditable(clock.mode)
           THEN /\ IsEditable(clock'.mode)
                /\ clock'.mode.prev = clock.mode.prev
                /\ clock'.mode.time \in Time
           ELSE clock'.mode = clock.mode]_vars

\* C26's case: the cursor moved on to Hours on a clock edited from Pause and
\* already changed by an edit.
C26_Witness ==
    /\ last_op = "edit_next"
    /\ steps > 0
    /\ clock.mode = Editable("Hours", Pause)

\* C27, as stated: in a render pass a digit gets the bottom border iff the
\* mode is Editable(f, _) and the digit belongs to field f; outside edit mode
\* no digit is underlined, and in every reachable Editable state at least one
\* drawn digit is underlined.
C27_EditCursorDrawn ==
    LET areas == render(clock)
        digits == {i \in 1..Len(areas) : areas[i].draws = "digit"}
        field(area) == IF area \in {"hh", "h"} THEN "Hours"
                       ELSE IF area \in {"mm", "m"} THEN "Minutes"
                       ELSE IF area \in {"ss", "s"} THEN "Seconds"
                       ELSE "Decis"
    IN  /\ \A i \in digits :
               areas[i].with_border <=>
                   (IsEditable(clock.mode) /\ clock.mode.time = field(areas[i].area))
        /\ ~IsEditable(clock.mode) => \A i \in digits : ~areas[i].with_border
        /\ IsEditable(clock.mode) => \E i \in digits : areas[i].with_border

\* C28: in every reachable state the previous mode kept inside Editable is
\* one of Initial, Tick, Pause and Done, never itself Editable.
C28_NoNestedEdit ==
    IsEditable(clock.mode) => clock.mode.prev \in {Initial, Tick, Pause, Done}

\* C28's case: edit mode entered while the clock was running, after it had
\* ticked.
C28_Witness ==
    /\ last_op = "toggle_edit"
    /\ steps > 0
    /\ IsEditable(clock.mode)
    /\ clock.mode.prev = Tick

\* C29, as stated: whenever the mode is Initial, current_value equals
\* initial_value, for both variants and after any sequence of operations.
C29_InitialIsUnmodified ==
    clock.mode = Initial => clock.current_value = clock.initial_value

\* C29, amended: a clock that the constructor or reset() leaves in Initial
\* has current_value equal to initial_value, and the only operation that
\* produces Initial with another current_value is toggle_edit() leaving edit
\* mode; every other operation either leaves such a clock as it is or takes
\* it out of that case.
C29_InitialModifiedOnlyByEdit ==
    /\ []((last_op \in {"new", "reset"} /\ clock.mode = Initial) =>
            clock.current_value = clock.initial_value)
    /\ [][(clock'.mode = Initial
             /\ clock'.current_value # clock'.initial_value) =>
            \/ last_op' = "toggle_edit" /\ IsEditable(clock.mode)
            \/ clock' = clock]_vars

\* C29's case: edit mode left on a clock that was Initial and has been
\* edited away from initial_value.
C29_Witness ==
    /\ last_op = "toggle_edit"
    /\ steps > 0
    /\ clock.mode = Initial
    /\ clock.current_value # clock.initial_value

\* C30: Countdown::new starts Done if current_value is 0, else Initial if
\* current_value == initial_value, else Pause; Timer::new starts Initial if
\* current_value == initial_value, else Done if current_value >=
\* MAX_DURATION, else Pause; both set the format to that of current_value and
\* neither starts in Tick or Editable.
C30_Constructors ==
    last_op = "new" =>
        /\ clock.current_value = args.current_value
        /\ clock.initial_value = args.initial_value
        /\ variant = "Countdown" =>
               clock.mode =
                   IF args.current_value = ZERO THEN Done
                   ELSE IF args.current_value = args.initial_value THEN Initial
                   ELSE Pause
        /\ variant = "Timer" =>
               clock.mode =
                   IF args.current_value = args.initial_value THEN Initial
                   ELSE IF args.current_value >= MAX_DURATION THEN Done
                   ELSE Pause
        /\ clock.format = get_format([clock EXCEPT !.current_value = args.current_value])
        /\ clock.mode # Tick
        /\ ~IsEditable(clock.mode)

\* C30's case: a timer constructed with both values at the maximum starts
\* Initial, not Done, showing two hour digits.
C30_Witness ==
    /\ variant = "Timer"
    /\ last_op = "new"
    /\ args.initial_value = MAX_DURATION
    /\ args.current_value = MAX_DURATION
    /\ clock.mode = Initial
    /\ clock.format = HhMmSs

====
